---- MODULE Spec2Model ----
(***************************************************************************)
(* The paginated user list endpoint (GET /api/users, optimized route) over *)
(* the five tables users, auth, user_roles, user_divisions and user_logs.  *)
(* The handler parses the query parameters, issues the page query and the  *)
(* count query together, and assembles the response once both have         *)
(* completed; a failed query is answered with status 500.  The module     *)
(* also holds the original route, for comparison, and the single-record    *)
(* lookup by id.                                                            *)
(***************************************************************************)
EXTENDS Integers, Sequences, FiniteSets, TLC

VARIABLES
    users,           \* table users: set of rows [id, created_at, username,
                     \*   full_name, bio, address, phone_number, profile_json,
                     \*   auth_id]
    auth,            \* table auth: set of rows [id]
    user_roles,      \* table user_roles: set of rows [id, user_id, role]
    user_divisions,  \* table user_divisions: set of rows [id, user_id, division_name]
    user_logs,       \* table user_logs: set of rows [id, user_id, action, created_at]
    now,             \* CURRENT_TIMESTAMP, in days
    pc,              \* position of the handler: "idle" | "waiting"
    request,         \* the request's query parameters [division, page, limit]
    page,            \* const page   (a JS number)
    limit,           \* const limit  (a JS number)
    offset,          \* const offset (a JS number)
    pageQ,           \* the page query's promise  [state, rows]
    countQ,          \* the count query's promise [state, total]
    response,        \* the last response of the handler
    listing,         \* what a client has received of one listing (filter, limit)
    lookup,          \* the last single-record lookup [asked, id, rows]
    clean,           \* the run of cleanUsersData: its position, its transaction
    seq              \* the run of the sequential cleanup on the same data

vars == <<users, auth, user_roles, user_divisions, user_logs, now, pc, request,
          page, limit, offset, pageQ, countQ, response, listing, lookup, clean,
          seq>>

db == <<users, auth, user_roles, user_divisions, user_logs, now>>


----------------------------------------------------------------------------
(* Bounds of the model *)

MaxUsers == 3
MaxTime == 2
MaxPage == 2
MaxLimit == 2
MaxLogs == 2
MaxDuplicated == 1
MaxLogUsers == 2

MaxCleanUsers == 3

MaxRuns == 2

(* Constants of the program *)

DEFAULT_LIMIT == 50
MAX_LIMIT == 200
RecentDays == 30
LookupLimit == 1
ActiveAbove == 5
CompleteAbove == 75

\* SQL NULL / JS null for a text value, and for an integer key
NULL == "<null>"
NoId == 0

----------------------------------------------------------------------------
(* JavaScript numbers and strings.  A number is an integer or NaN; a       *)
(* string is a sequence of one-character strings.                          *)

NaN == [nan |-> TRUE, v |-> 0]

Num(n) == [nan |-> FALSE, v |-> n]

Digits == <<"0", "1", "2", "3", "4", "5", "6", "7", "8", "9">>

IsDigit(c) == \E i \in 1..Len(Digits) : Digits[i] = c

DigitVal(c) == (CHOOSE i \in 1..Len(Digits) : Digits[i] = c) - 1

IsSpace(c) == c \in {" ", "\t", "\n"}

RECURSIVE SkipSpaces(_)
SkipSpaces(s) ==
    IF s # <<>> /\ IsSpace(Head(s)) THEN SkipSpaces(Tail(s)) ELSE s

RECURSIVE LeadingDigits(_)
LeadingDigits(s) ==
    IF s # <<>> /\ IsDigit(Head(s))
    THEN <<Head(s)>> \o LeadingDigits(Tail(s))
    ELSE <<>>

RECURSIVE DigitsValue(_, _)
DigitsValue(ds, acc) ==
    IF ds = <<>> THEN acc
    ELSE DigitsValue(Tail(ds), acc * Len(Digits) + DigitVal(Head(ds)))

\* parseInt(s, 10): leading white space, an optional sign, then the longest
\* run of digits; NaN when there is no digit.
ParseInt(s) ==
    LET t    == SkipSpaces(s)
        sgn  == t # <<>> /\ Head(t) \in {"-", "+"}
        body == LeadingDigits(IF sgn THEN Tail(t) ELSE t)
    IN  IF body = <<>> THEN NaN
        ELSE IF sgn /\ Head(t) = "-" THEN Num(0 - DigitsValue(body, 0))
        ELSE Num(DigitsValue(body, 0))

\* String(n) for an integer n >= 0
RECURSIVE NumberToString(_)
NumberToString(n) ==
    IF n < Len(Digits) THEN <<Digits[n + 1]>>
    ELSE NumberToString(n \div Len(Digits)) \o <<Digits[(n % Len(Digits)) + 1]>>

\* Math.max and Math.min: NaN when an argument is NaN
MathMax(a, b) ==
    IF a.nan \/ b.nan THEN NaN ELSE IF a.v >= b.v THEN a ELSE b

MathMin(a, b) ==
    IF a.nan \/ b.nan THEN NaN ELSE IF a.v <= b.v THEN a ELSE b

\* (a - 1) * b on JS numbers
Times(a, b) == IF a.nan \/ b.nan THEN NaN ELSE Num(a.v * b.v)

Minus(a, b) == IF a.nan \/ b.nan THEN NaN ELSE Num(a.v - b.v)

\* Variant of MathCeilDiv that rounds down (Math.floor)
MathFloorDiv(a, b) == a \div b

\* Math.ceil(a / b) for integers a >= 0, b >= 1
MathCeilDiv(a, b) == (a + b - 1) \div b

\* url.searchParams.get(name): null when the parameter is absent
Absent == [present |-> FALSE, text |-> <<>>]

Text(s) == [present |-> TRUE, text |-> s]

\* x || d for a string-or-null x: null and "" are falsy
OrElse(x, d) == IF x.present /\ x.text # <<>> THEN x.text ELSE d

\* lines 201-206: page, limit and offset of a request
ParsePage(p) == MathMax(Num(1), ParseInt(OrElse(p, <<"1">>)))

ParseLimit(l) ==
    MathMin(Num(MAX_LIMIT),
            MathMax(Num(1), ParseInt(OrElse(l, NumberToString(DEFAULT_LIMIT)))))

Offset(p, l) == Times(Minus(p, Num(1)), l)

----------------------------------------------------------------------------
(* The queries *)

NullRole == [id |-> NoId, user_id |-> NoId, role |-> NULL]

NullDivision == [id |-> NoId, user_id |-> NoId, division_name |-> NULL]

\* S LEFT JOIN: the matching rows, or one all-NULL row when there is none
LeftJoin(matching, nullRow) == IF matching = {} THEN {nullRow} ELSE matching

ZeroAgg == [log_count |-> 0, login_count |-> 0, update_count |-> 0, recent_logs |-> 0]

\* Variant of AddLog whose recent window includes its boundary (>=)
AddLogInclusive(agg, l) ==
    [log_count    |-> agg.log_count + 1,
     login_count  |-> agg.login_count + (IF l.action = "login" THEN 1 ELSE 0),
     update_count |-> agg.update_count + (IF l.action = "update_profile" THEN 1 ELSE 0),
     recent_logs  |-> agg.recent_logs
                      + (IF l.created_at >= now - RecentDays THEN 1 ELSE 0)]

\* One step of the grouped pass: the counters of a group after one more row
AddLog(agg, l) ==
    [log_count    |-> agg.log_count + 1,
     login_count  |-> agg.login_count + (IF l.action = "login" THEN 1 ELSE 0),
     update_count |-> agg.update_count + (IF l.action = "update_profile" THEN 1 ELSE 0),
     recent_logs  |-> agg.recent_logs
                      + (IF l.created_at > now - RecentDays THEN 1 ELSE 0)]

\* CTE user_aggregates: one pass over user_logs, one group per user_id
RECURSIVE GroupLogs(_, _)
GroupLogs(logs, acc) ==
    IF logs = {} THEN acc
    ELSE LET l   == CHOOSE x \in logs : TRUE
             old == IF l.user_id \in DOMAIN acc THEN acc[l.user_id] ELSE ZeroAgg
         IN  GroupLogs(logs \ {l}, (l.user_id :> AddLog(old, l)) @@ acc)

UserAggregates == GroupLogs(user_logs, [x \in {} |-> ZeroAgg])

\* Variant of LeftJoinAggregates that is an inner join: rows without a group
\* are dropped
InnerJoinAggregates(rows) ==
    {[u  |-> row.u, ur |-> row.ur, ud |-> row.ud,
      ua |-> <<UserAggregates[row.u.id]>>] :
        row \in {r \in rows : r.u.id \in DOMAIN UserAggregates}}

\* LEFT JOIN user_aggregates ua ON u.id = ua.user_id: every row, with its
\* group in ua, or NULL (no element) when the profile has no group
LeftJoinAggregates(rows) ==
    {[u  |-> row.u, ur |-> row.ur, ud |-> row.ud,
      ua |-> IF row.u.id \in DOMAIN UserAggregates
             THEN <<UserAggregates[row.u.id]>> ELSE <<>>] : row \in rows}

\* COALESCE(ua.<column>, 0) for the four columns of ua
Coalesce(ua) == IF ua = <<>> THEN ZeroAgg ELSE ua[1]

\* CTE total_users_count
TotalUsersCount == Cardinality(users)

\* CTE user_creation_rank: COUNT(*) OVER (ORDER BY created_at DESC) - 1.  The
\* default frame of an ordered window runs from the first row to the last
\* peer of the current row, so rows with the same created_at are counted.
NewerUsers(u) == Cardinality({v \in users : v.created_at >= u.created_at}) - 1

\* FROM users u LEFT JOIN user_roles ur ... LEFT JOIN user_divisions ud ...
JoinRolesDivisions ==
    UNION {
        {[u |-> u, ur |-> r, ud |-> d] :
            r \in LeftJoin({x \in user_roles : x.user_id = u.id}, NullRole),
            d \in LeftJoin({x \in user_divisions : x.user_id = u.id}, NullDivision)}
        : u \in users}

\* FROM users u LEFT JOIN user_divisions ud ... (count query)
JoinDivisions ==
    UNION {
        {[u |-> u, ud |-> d] :
            d \in LeftJoin({x \in user_divisions : x.user_id = u.id}, NullDivision)}
        : u \in users}

\* Variant of Where that keeps every row, whatever the filter
WhereAny(row, filter) == row.u.id # NoId

\* WHERE ($1::text IS NULL OR $1 = 'all' OR ud.division_name = $1)
Where(row, filter) ==
    \/ filter = NULL
    \/ filter = "all"
    \/ (row.ud.division_name # NULL /\ row.ud.division_name = filter)

\* ORDER BY u.created_at DESC: every sequence of the rows in non-increasing
\* created_at order; the order among rows of equal created_at is not fixed.
RECURSIVE OrderByCreatedAtDesc(_)
OrderByCreatedAtDesc(rows) ==
    IF rows = {} THEN {<<>>}
    ELSE UNION {
            {<<r>> \o rest : rest \in OrderByCreatedAtDesc(rows \ {r})}
            : r \in {x \in rows :
                        \A y \in rows : y.u.created_at <= x.u.created_at}}

\* LIMIT l OFFSET o
LimitOffset(rows, l, o) ==
    IF o >= Len(rows) THEN <<>>
    ELSE SubSeq(rows, o + 1, IF o + l <= Len(rows) THEN o + l ELSE Len(rows))

\* SQL text || text: NULL when either operand is NULL
SqlConcat(a, b) == IF a = NULL \/ b = NULL THEN NULL ELSE a \o b

\* COALESCE(x, d) for a text value
CoalesceText(x, d) == IF x = NULL THEN d ELSE x

\* NULLIF(x, y)
NullIf(x, y) == IF x = y THEN NULL ELSE x

\* u.full_name || ' (' || COALESCE(ur.role, 'no role') || ')'
DisplayName(full_name, role) ==
    SqlConcat(SqlConcat(SqlConcat(full_name, " ("), CoalesceText(role, "no role")), ")")

\* Variant of BioDisplay that tells the empty bio from the missing one
BioDisplayEmpty(bio) ==
    IF bio = NULL THEN "No bio available" ELSE IF bio = "" THEN "Empty bio" ELSE bio

\* COALESCE(NULLIF(u.bio, ''), 'No bio available')
BioDisplay(bio) == CoalesceText(NullIf(bio, ""), "No bio available")

\* A JSON document of profile_json: NULL, or an object that may hold
\* social_media, which may hold instagram
JsonNull == [isNull |-> TRUE, social_media |-> [isNull |-> TRUE, instagram |-> NULL]]

Json(social) == [isNull |-> FALSE, social_media |-> social]

NoSocialMedia == [isNull |-> TRUE, instagram |-> NULL]

SocialMedia(instagram) == [isNull |-> FALSE, instagram |-> instagram]

\* profile_json->'social_media'->>'instagram'
JsonInstagram(doc) ==
    IF doc.isNull \/ doc.social_media.isNull THEN NULL ELSE doc.social_media.instagram

\* COALESCE(u.profile_json->'social_media'->>'instagram', 'No Instagram')
InstagramHandle(doc) == CoalesceText(JsonInstagram(doc), "No Instagram")

\* (x IS NOT NULL)::int
NotNullInt(isNull) == IF isNull THEN 0 ELSE 1

\* Variant of IsActive with the threshold included
IsActiveInclusive(log_count) == log_count >= ActiveAbove

\* CASE WHEN COALESCE(ua.log_count, 0) > 5 THEN true ELSE false END
IsActive(log_count) == log_count > ActiveAbove

\* CASE WHEN ur.role IN ('admin', 'moderator') THEN true ELSE false END
IsSenior(role) == role # NULL /\ role \in {"admin", "moderator"}

\* Variant of ProfileCompleteness that counts an empty bio as missing
ProfileCompletenessFilled(u) ==
    25 * (NotNullInt(u.bio = NULL \/ u.bio = "") + NotNullInt(u.address = NULL)
          + NotNullInt(u.phone_number = NULL) + NotNullInt(u.profile_json.isNull))

\* The CASE of profile_completeness
ProfileCompleteness(u) ==
    LET filled == NotNullInt(u.bio = NULL) + NotNullInt(u.address = NULL)
                  + NotNullInt(u.phone_number = NULL)
                  + NotNullInt(u.profile_json.isNull)
    IN  IF /\ u.bio # NULL /\ u.address # NULL
           /\ u.phone_number # NULL /\ ~u.profile_json.isNull THEN 100
        ELSE IF filled = 3 THEN 75
        ELSE IF filled = 2 THEN 50
        ELSE IF filled = 1 THEN 25
        ELSE 0

\* The SELECT list of the page query (username, birth_date, long_bio,
\* updated_at and a.email are passed through unchanged and left out)
SelectRow(row) ==
    [id             |-> row.u.id,
     created_at     |-> row.u.created_at,
     role           |-> row.ur.role,
     division_name  |-> row.ud.division_name,
     total_users    |-> TotalUsersCount,
     newer_users    |-> NewerUsers(row.u),
     log_count      |-> Coalesce(row.ua).log_count,
     role_count     |-> 1,
     division_count |-> 1,
     login_count    |-> Coalesce(row.ua).login_count,
     update_count   |-> Coalesce(row.ua).update_count,
     recent_logs    |-> Coalesce(row.ua).recent_logs,
     full_name      |-> row.u.full_name,
     bio            |-> row.u.bio,
     address        |-> row.u.address,
     phone_number   |-> row.u.phone_number,
     profile_json   |-> row.u.profile_json,
     display_name   |-> DisplayName(row.u.full_name, row.ur.role),
     bio_display    |-> BioDisplay(row.u.bio),
     instagram_handle     |-> InstagramHandle(row.u.profile_json),
     days_since_created   |-> now - row.u.created_at,
     is_active            |-> IsActive(Coalesce(row.ua).log_count),
     is_senior            |-> IsSenior(row.ur.role),
     profile_completeness |-> ProfileCompleteness(row.u)]

\* The rows the page query selects before LIMIT / OFFSET
FilteredRows(filter) ==
    {row \in LeftJoinAggregates(JoinRolesDivisions) : Where(row, filter)}

\* Every result the page query can return for ($1, $2, $3)
PageQueryResults(filter, l, o) ==
    {[i \in 1..Len(w) |-> SelectRow(w[i])] :
        w \in {LimitOffset(ord, l, o) : ord \in OrderByCreatedAtDesc(FilteredRows(filter))}}

\* SELECT COUNT(*) as total ... : the count, sent as text (bigint)
CountQueryResult(filter) ==
    NumberToString(Cardinality({row \in JoinDivisions : Where(row, filter)}))

\* LIMIT and OFFSET take integers: the server rejects the parameter NaN
ValidParams(l, o) == ~l.nan /\ ~o.nan

----------------------------------------------------------------------------
(* The data sets the model starts from.  Profiles are numbered in the      *)
(* order of their creation; each has a list of roles and a list of         *)
(* divisions (one row of user_roles / user_divisions per entry) and a list *)
(* of log entries.                                                          *)

RECURSIVE RowsBefore(_, _)
RowsBefore(lists, u) ==
    IF u = 1 THEN 0 ELSE RowsBefore(lists, u - 1) + Len(lists[u - 1])

\* The columns of a profile besides id and created_at
FullProfile ==
    [username |-> "ann", full_name |-> "Ann", bio |-> "Hello", address |-> "Jl. A",
     phone_number |-> "0812", profile_json |-> Json(SocialMedia("@ann"))]

Profiles ==
    [username     : {"ann"},
     full_name    : {NULL, "Ann"},
     bio          : {NULL, "", "Hello"},
     address      : {NULL, "Jl. A"},
     phone_number : {NULL, "0812"},
     profile_json : {JsonNull, Json(NoSocialMedia), Json(SocialMedia(NULL)),
                     Json(SocialMedia("@ann"))}]

UserRowsWith(n, createdAt, profile) ==
    {[id |-> u, created_at |-> createdAt[u], username |-> profile[u].username,
      full_name |-> profile[u].full_name, bio |-> profile[u].bio,
      address |-> profile[u].address, phone_number |-> profile[u].phone_number,
      profile_json |-> profile[u].profile_json, auth_id |-> u] : u \in 1..n}

\* One auth row per profile
AuthRows(n) == {[id |-> a] : a \in 1..n}

UserRows(n, createdAt) == UserRowsWith(n, createdAt, [u \in 1..n |-> FullProfile])

RoleRows(n, roles) ==
    UNION {{[id |-> RowsBefore(roles, u) + k, user_id |-> u, role |-> roles[u][k]]
             : k \in 1..Len(roles[u])} : u \in 1..n}

DivisionRows(n, divisions) ==
    UNION {{[id |-> RowsBefore(divisions, u) + k, user_id |-> u,
             division_name |-> divisions[u][k]]
             : k \in 1..Len(divisions[u])} : u \in 1..n}

\* The rows of user_logs for a set of entries, numbered in some order
RECURSIVE LogRows(_, _)
LogRows(entries, t) ==
    IF entries = {} THEN {}
    ELSE LET e == CHOOSE x \in entries : TRUE
         IN  LogRows(entries \ {e}, t)
             \cup {[id |-> Cardinality(entries), user_id |-> e.user_id,
                    action |-> e.action, created_at |-> t - e.age]}

\* created_at does not decrease with the id
CreationTimes(n) ==
    {c \in [1..n -> 1..MaxTime] : \A i \in 1..n : i < n => c[i] <= c[i + 1]}

\* What a profile can have in user_roles and user_divisions: one row in each,
\* no row, or more than one row
Regular ==
    {[roles |-> <<"admin">>, divisions |-> <<"Tech">>],
     [roles |-> <<"user">>,  divisions |-> <<"HR">>],
     [roles |-> <<>>,        divisions |-> <<>>]}

Duplicated ==
    {[roles |-> <<"admin", "user">>, divisions |-> <<"Tech">>],
     [roles |-> <<"user">>,          divisions |-> <<"Tech", "Tech">>]}

Satellites(n) ==
    {s \in [1..n -> Regular \cup Duplicated] :
        Cardinality({u \in 1..n : s[u] \in Duplicated}) <= MaxDuplicated}

\* Log entries: who, what, and how many days ago
LogEntries(n) ==
    [user_id : 1..n, action : {"login", "update_profile", "view"},
     age : {RecentDays - 1, RecentDays}]

LogSets(n) == {e \in SUBSET LogEntries(n) : Cardinality(e) <= MaxLogs}

Today == RecentDays + MaxTime + MaxLogUsers

NoResponse == [status |-> 0, body |-> [message |-> "none"]]

\* A promise of executeQuery: how often the query was issued, and its outcome
NoQuery == [state |-> "none", issued |-> 0, rows |-> <<>>, total |-> <<>>]

NoListing ==
    [division |-> NULL, limit |-> Absent, pages |-> <<>>, repeating |-> FALSE,
     again |-> <<>>]

NoLookup == [asked |-> FALSE, id |-> NoId, rows |-> <<>>]

NoDeletes ==
    [users |-> {}, auth |-> {}, user_roles |-> {}, user_divisions |-> {},
     user_logs |-> {}]

NoCounts == [users |-> 0, auth |-> 0, user_roles |-> 0, user_logs |-> 0,
             user_divisions |-> 0]

\* cleanUsersData before it is called: no client, no transaction.
\*   run      which run of the script this is
\*   pc       the statement the script is about to run
\*   client   "none" | "held" | "released"
\*   tx       "none" | "open" | "committed" | "rolledback"
\*   deleted  rows the open transaction has deleted, invisible to others
\*   initial  the tables when the transaction began (the script logs counts)
NoClean ==
    [run |-> 1, pc |-> "idle", client |-> "none", tx |-> "none",
     deleted |-> NoDeletes,
     initial |-> NoDeletes, initialCounts |-> NoCounts, finalCounts |-> NoCounts,
     usersWithNulls |-> {}, duplicateUsernames |-> {}, duplicatePhones |-> {},
     allUserIdsToDelete |-> {}, thrown |-> FALSE]

NoSeq == [ran |-> FALSE, users |-> {}, auth |-> {}, user_roles |-> {},
          user_divisions |-> {}, user_logs |-> {}]

HandlerInit ==
    /\ pc = "idle"
    /\ request = [division |-> NULL, page |-> Absent, limit |-> Absent]
    /\ page = Num(1)
    /\ limit = Num(1)
    /\ offset = Num(0)
    /\ pageQ = NoQuery
    /\ countQ = NoQuery
    /\ response = NoResponse
    /\ listing = NoListing
    /\ lookup = NoLookup
    /\ clean = NoClean
    /\ seq = NoSeq

DataSetWith(n, c, s, logs, profile) ==
    /\ users = UserRowsWith(n, c, profile)
    /\ auth = AuthRows(n)
    /\ user_roles = RoleRows(n, [u \in 1..n |-> s[u].roles])
    /\ user_divisions = DivisionRows(n, [u \in 1..n |-> s[u].divisions])
    /\ user_logs = LogRows(logs, Today)
    /\ now = Today

DataSet(n, c, s, logs) ==
    /\ users = UserRows(n, c)
    /\ auth = AuthRows(n)
    /\ user_roles = RoleRows(n, [u \in 1..n |-> s[u].roles])
    /\ user_divisions = DivisionRows(n, [u \in 1..n |-> s[u].divisions])
    /\ user_logs = LogRows(logs, Today)
    /\ now = Today

\* Profiles with equal and different creation times, with and without
\* satellite rows, no log
Init ==
    /\ \E n \in 0..MaxUsers :
         \E c \in CreationTimes(n), s \in Satellites(n) : DataSet(n, c, s, {})
    /\ HandlerInit

\* Profiles created one after the other, the first with one or several rows
\* in user_roles, the others without satellite rows, and every set of at
\* most MaxLogs log entries
InitLogs ==
    /\ \E s \in {x \in Satellites(MaxLogUsers) :
                    /\ x[1].divisions = <<"Tech">>
                    /\ \A u \in 2..MaxLogUsers : x[u].roles = <<>>},
          logs \in LogSets(MaxLogUsers) :
            DataSet(MaxLogUsers, [u \in 1..MaxLogUsers |-> u], s, logs)
    /\ HandlerInit

\* Profiles with one row or no row in user_roles and user_divisions
InitListing ==
    /\ \E n \in 1..MaxUsers :
         \E c \in CreationTimes(n),
            s \in [1..n -> {x \in Regular : x.roles # <<"user">>}] :
                DataSet(n, c, s, {})
    /\ HandlerInit

\* One profile
InitParse ==
    /\ \E s \in Satellites(1) : DataSet(1, [u \in {1} |-> 1], s, {})
    /\ HandlerInit

\* k log entries of one profile, one per day
ManyLogs(u, k) == {[user_id |-> u, action |-> "login", age |-> a] : a \in 1..k}

\* Numbers of log entries at and around the threshold of is_active
LogCounts == {0, ActiveAbove, ActiveAbove + 1}

\* One profile with every combination of missing and present columns, with
\* or without a role, and with few or many log entries
InitProfile ==
    /\ \E profile \in Profiles,
          s \in {[roles |-> <<>>, divisions |-> <<>>],
                 [roles |-> <<"admin">>, divisions |-> <<"Tech">>],
                 [roles |-> <<"moderator">>, divisions |-> <<"Tech">>],
                 [roles |-> <<"user">>, divisions |-> <<"HR">>]},
          k \in LogCounts :
            DataSetWith(1, [u \in {1} |-> 1], [u \in {1} |-> s], ManyLogs(1, k),
                        [u \in {1} |-> profile])
    /\ HandlerInit

\* Kinds of profiles: complete, senior and active; three columns filled,
\* not senior, at the threshold of activity; nothing filled, no role, no
\* division, no log
Kinds ==
    {[profile |-> FullProfile,
      satellites |-> [roles |-> <<"admin">>, divisions |-> <<"Tech">>],
      logs |-> ActiveAbove + 1],
     [profile |-> [FullProfile EXCEPT !.profile_json = JsonNull],
      satellites |-> [roles |-> <<"user">>, divisions |-> <<"HR">>],
      logs |-> ActiveAbove],
     [profile |-> [username |-> "ann", full_name |-> "Ann", bio |-> NULL,
                   address |-> NULL, phone_number |-> NULL,
                   profile_json |-> JsonNull],
      satellites |-> [roles |-> <<>>, divisions |-> <<>>],
      logs |-> 0]}

\* Two or more profiles created one after the other, each of some kind
InitSummary ==
    /\ \E n \in 2..MaxUsers :
         \E kind \in [1..n -> Kinds] :
            DataSetWith(n, [u \in 1..n |-> u],
                        [u \in 1..n |-> kind[u].satellites],
                        UNION {ManyLogs(u, kind[u].logs) : u \in 1..n},
                        [u \in 1..n |-> kind[u].profile])
    /\ HandlerInit

----------------------------------------------------------------------------
(* The handler GET *)

\* Variant of Start that issues the count query only after the page query
\* (the page query alone is pending)
StartSequential(d, p, l) ==
    /\ pc = "idle"
    /\ pc' = "waiting"
    /\ request' = [division |-> d, page |-> p, limit |-> l]
    /\ page' = ParsePage(p)
    /\ limit' = ParseLimit(l)
    /\ offset' = Offset(ParsePage(p), ParseLimit(l))
    /\ pageQ' = [NoQuery EXCEPT !.state = "pending", !.issued = 1]
    /\ countQ' = NoQuery
    /\ response' = NoResponse
    /\ UNCHANGED <<db, lookup, clean, seq>>

\* lines 199-206, 297-300: parse the parameters and issue both queries
Start(d, p, l) ==
    /\ pc = "idle"
    /\ pc' = "waiting"
    /\ request' = [division |-> d, page |-> p, limit |-> l]
    /\ page' = ParsePage(p)
    /\ limit' = ParseLimit(l)
    /\ offset' = Offset(ParsePage(p), ParseLimit(l))
    /\ pageQ' = [NoQuery EXCEPT !.state = "pending", !.issued = 1]
    /\ countQ' = [NoQuery EXCEPT !.state = "pending", !.issued = 1]
    /\ response' = NoResponse
    /\ UNCHANGED <<db, lookup, clean, seq>>

GetStart(d, p, l) == Start(d, p, l) /\ UNCHANGED listing

\* The store runs the page query with [divisionFilter, limit, offset]
ExecPageQuery ==
    /\ pc = "waiting"
    /\ pageQ.state = "pending"
    /\ ValidParams(limit, offset)
    /\ \E rows \in PageQueryResults(request.division, limit.v, offset.v) :
          pageQ' = [pageQ EXCEPT !.state = "ok", !.rows = rows]
    /\ UNCHANGED <<db, pc, request, page, limit, offset, countQ, response, listing, lookup, clean, seq>>

\* The store rejects the page query's parameters
PageQueryRejected ==
    /\ pc = "waiting"
    /\ pageQ.state = "pending"
    /\ ~ValidParams(limit, offset)
    /\ pageQ' = [pageQ EXCEPT !.state = "rejected"]
    /\ UNCHANGED <<db, pc, request, page, limit, offset, countQ, response, listing, lookup, clean, seq>>

\* The store or the connection fails while the page query runs
PageQueryFails ==
    /\ pc = "waiting"
    /\ pageQ.state = "pending"
    /\ pageQ' = [pageQ EXCEPT !.state = "failed"]
    /\ UNCHANGED <<db, pc, request, page, limit, offset, countQ, response, listing, lookup, clean, seq>>

\* Variant of ExecCountQuery that records the request in user_logs
ExecCountQueryLogged ==
    /\ pc = "waiting"
    /\ countQ.state = "pending"
    /\ countQ' = [countQ EXCEPT !.state = "ok",
                                !.total = CountQueryResult(request.division)]
    /\ user_logs' = user_logs \cup {[id |-> Cardinality(user_logs) + 1,
                                     user_id |-> NoId, action |-> "view",
                                     created_at |-> now]}
    /\ UNCHANGED <<users, auth, user_roles, user_divisions, now, pc, request, page,
                   limit, offset, pageQ, response, listing, lookup, clean, seq>>

\* The store runs the count query with [divisionFilter]
ExecCountQuery ==
    /\ pc = "waiting"
    /\ countQ.state = "pending"
    /\ countQ' = [countQ EXCEPT !.state = "ok",
                                !.total = CountQueryResult(request.division)]
    /\ UNCHANGED <<db, pc, request, page, limit, offset, pageQ, response, listing, lookup, clean, seq>>

\* The store or the connection fails while the count query runs
CountQueryFails ==
    /\ pc = "waiting"
    /\ countQ.state = "pending"
    /\ countQ' = [countQ EXCEPT !.state = "failed"]
    /\ UNCHANGED <<db, pc, request, page, limit, offset, pageQ, response, listing, lookup, clean, seq>>

\* !!x for a string or null
Truthy(x) == x # NULL /\ x # ""

\* user.profile_json?.social_media || {}
OrEmptyObject(doc) ==
    IF doc.isNull \/ doc.social_media.isNull THEN SocialMedia(NULL) ELSE doc.social_media

\* lines 308-346: one record of the response per row of the result
\* (preferences, skills and interests of profile_json are left out)
MapUser(user) ==
    [id            |-> user.id,
     createdAt     |-> user.created_at,
     role          |-> user.role,
     division      |-> user.division_name,
     totalUsers    |-> user.total_users,
     newerUsers    |-> user.newer_users,
     logCount      |-> user.log_count,
     roleCount     |-> user.role_count,
     divisionCount |-> user.division_count,
     loginCount    |-> user.login_count,
     updateCount   |-> user.update_count,
     recentLogs    |-> user.recent_logs,
     fullName      |-> user.full_name,
     bio           |-> user.bio,
     profileJson   |-> user.profile_json,
     address       |-> user.address,
     phoneNumber   |-> user.phone_number,
     displayName   |-> user.display_name,
     bioDisplay    |-> user.bio_display,
     instagramHandle  |-> user.instagram_handle,
     daysSinceCreated |-> user.days_since_created,
     isActive      |-> user.is_active,
     isSenior      |-> user.is_senior,
     socialMedia   |-> OrEmptyObject(user.profile_json),
     hasProfile    |-> ~user.profile_json.isNull,
     hasBio        |-> Truthy(user.bio),
     hasAddress    |-> Truthy(user.address),
     hasPhone      |-> Truthy(user.phone_number),
     profileCompleteness |-> user.profile_completeness]

\* A property key: null is the key "null"
PropertyKey(x) == IF x = NULL THEN "null" ELSE x

SummaryInit ==
    [activeUsers |-> 0, seniorUsers |-> 0, usersWithCompleteProfiles |-> 0,
     usersByDivision |-> [k \in {} |-> 0]]

\* Variant of SummaryStep that counts a completeness of 75 as complete
SummaryStepFrom75(acc, user) ==
    LET key == PropertyKey(user.division)
        old == IF key \in DOMAIN acc.usersByDivision
               THEN acc.usersByDivision[key] ELSE 0
    IN  [activeUsers |-> acc.activeUsers + (IF user.isActive THEN 1 ELSE 0),
         seniorUsers |-> acc.seniorUsers + (IF user.isSenior THEN 1 ELSE 0),
         usersWithCompleteProfiles |->
             acc.usersWithCompleteProfiles
             + (IF user.profileCompleteness >= CompleteAbove THEN 1 ELSE 0),
         usersByDivision |-> (key :> (old + 1)) @@ acc.usersByDivision]

\* lines 350-356: the callback of users.reduce
SummaryStep(acc, user) ==
    LET key == PropertyKey(user.division)
        old == IF key \in DOMAIN acc.usersByDivision
               THEN acc.usersByDivision[key] ELSE 0
    IN  [activeUsers |-> acc.activeUsers + (IF user.isActive THEN 1 ELSE 0),
         seniorUsers |-> acc.seniorUsers + (IF user.isSenior THEN 1 ELSE 0),
         usersWithCompleteProfiles |->
             acc.usersWithCompleteProfiles
             + (IF user.profileCompleteness > CompleteAbove THEN 1 ELSE 0),
         usersByDivision |-> (key :> (old + 1)) @@ acc.usersByDivision]

\* lines 349-364: users.reduce over the first k records of the page
RECURSIVE SummaryReduce(_, _)
SummaryReduce(records, k) ==
    IF k = 0 THEN SummaryInit
    ELSE SummaryStep(SummaryReduce(records, k - 1), records[k])

\* divisionFilter || "all"
FilteredBy(d) == IF d = NULL \/ d = "" THEN "all" ELSE d

\* lines 304-305, 371-389: the response built from the two results
OkResponse(result, countResult, d, p, l) ==
    LET totalCount == ParseInt(countResult).v
        totalPages == MathCeilDiv(totalCount, l)
        records    == [i \in 1..Len(result) |-> MapUser(result[i])]
    IN  [status |-> 200,
         body |-> [users |-> records,
                   summary |-> SummaryReduce(records, Len(records)),
                   pagination |-> [page            |-> p,
                                   limit           |-> l,
                                   totalPages      |-> totalPages,
                                   totalCount      |-> totalCount,
                                   hasNextPage     |-> p < totalPages,
                                   hasPreviousPage |-> p > 1],
                   filteredBy |-> FilteredBy(d),
                   message |-> "Users retrieved successfully"]]

\* lines 390-400: the catch block
ErrorResponse == [status |-> 500, body |-> [message |-> "Internal server error."]]

\* Promise.all has resolved: both queries have completed
Respond ==
    /\ pc = "waiting"
    /\ pageQ.state = "ok"
    /\ countQ.state = "ok"
    /\ pc' = "idle"
    /\ response' = OkResponse(pageQ.rows, countQ.total, request.division, page.v, limit.v)
    /\ UNCHANGED <<db, request, page, limit, offset, pageQ, countQ, lookup, clean, seq>>

GetRespond == Respond /\ UNCHANGED listing

\* Variant of GetFail that answers a failed query with an empty page
GetFailEmpty ==
    /\ pc = "waiting"
    /\ \/ pageQ.state \in {"rejected", "failed"}
       \/ countQ.state \in {"rejected", "failed"}
    /\ pc' = "idle"
    /\ response' = OkResponse(<<>>, <<"0">>, request.division, 1, 1)
    /\ UNCHANGED <<db, request, page, limit, offset, pageQ, countQ, listing, lookup, clean, seq>>

\* Promise.all has rejected: one of the queries has failed
GetFail ==
    /\ pc = "waiting"
    /\ \/ pageQ.state \in {"rejected", "failed"}
       \/ countQ.state \in {"rejected", "failed"}
    /\ pc' = "idle"
    /\ response' = ErrorResponse
    /\ UNCHANGED <<db, request, page, limit, offset, pageQ, countQ, listing, lookup, clean, seq>>

----------------------------------------------------------------------------
(* The original handler GET (route before the optimization): one query     *)
(* without pagination, derived fields computed per record in JavaScript.   *)

\* CONCAT(a, b, ...): NULL arguments are skipped
OriginalConcat(parts) ==
    LET text(i) == IF parts[i] = NULL THEN "" ELSE parts[i]
    IN  text(1) \o text(2) \o text(3) \o text(4)

\* CONCAT(u.full_name, ' (', COALESCE(ur.role, 'no role'), ')')
OriginalDisplayName(full_name, role) ==
    OriginalConcat(<<full_name, " (", CoalesceText(role, "no role"), ")">>)

\* CASE WHEN u.bio IS NULL ... WHEN u.bio = '' ... ELSE u.bio END
OriginalBioDisplay(bio) ==
    IF bio = NULL THEN "No bio available" ELSE IF bio = "" THEN "Empty bio" ELSE bio

\* The nested CASE of instagram_handle
OriginalInstagramHandle(doc) ==
    IF ~doc.isNull
    THEN IF ~doc.social_media.isNull
         THEN IF doc.social_media.instagram # NULL
              THEN doc.social_media.instagram
              ELSE "No Instagram"
         ELSE "No social media"
    ELSE "No profile data"

\* The subquery of recent_logs: the log entries of the profile later than 30
\* days before its latest entry
OriginalRecentLogs(id) ==
    LET logs == {l \in user_logs : l.user_id = id}
    IN  Cardinality({l \in logs :
            \E m \in logs : /\ \A x \in logs : x.created_at <= m.created_at
                            /\ l.created_at > m.created_at - RecentDays})

\* The SELECT list of the original query
OriginalSelectRow(row) ==
    [id             |-> row.u.id,
     created_at     |-> row.u.created_at,
     full_name      |-> row.u.full_name,
     bio            |-> row.u.bio,
     address        |-> row.u.address,
     phone_number   |-> row.u.phone_number,
     profile_json   |-> row.u.profile_json,
     role           |-> row.ur.role,
     division_name  |-> row.ud.division_name,
     total_users    |-> Cardinality(users),
     newer_users    |-> Cardinality({v \in users : v.created_at > row.u.created_at}),
     log_count      |-> Cardinality({l \in user_logs : l.user_id = row.u.id}),
     role_count     |-> Cardinality({x \in user_roles : x.user_id = row.u.id}),
     division_count |-> Cardinality({x \in user_divisions : x.user_id = row.u.id}),
     login_count    |-> Cardinality({l \in user_logs :
                            l.action = "login" /\ l.user_id = row.u.id}),
     update_count   |-> Cardinality({l \in user_logs :
                            l.action = "update_profile" /\ l.user_id = row.u.id}),
     recent_logs    |-> OriginalRecentLogs(row.u.id),
     display_name   |-> OriginalDisplayName(row.u.full_name, row.ur.role),
     bio_display    |-> OriginalBioDisplay(row.u.bio),
     instagram_handle |-> OriginalInstagramHandle(row.u.profile_json)]

\* if (divisionFilter && divisionFilter !== "all") WHERE ud.division_name = ...
OriginalWhere(row, d) ==
    \/ d = NULL \/ d = "" \/ d = "all"
    \/ (row.ud.division_name # NULL /\ row.ud.division_name = d)

\* Every result of the original query
OriginalQueryResults(d) ==
    {[i \in 1..Len(ord) |-> OriginalSelectRow(ord[i])] :
        ord \in OrderByCreatedAtDesc({row \in JoinRolesDivisions : OriginalWhere(row, d)})}

\* [a, b, c, d].filter(Boolean).length
CountTrue(flags) == Cardinality({i \in 1..Len(flags) : flags[i]})

\* lines 92-160: one record of the original response per row
OriginalMapUser(user) ==
    [id            |-> user.id,
     fullName      |-> user.full_name,
     bio           |-> user.bio,
     profileJson   |-> user.profile_json,
     address       |-> user.address,
     phoneNumber   |-> user.phone_number,
     createdAt     |-> user.created_at,
     role          |-> user.role,
     division      |-> user.division_name,
     displayName   |-> user.display_name,
     bioDisplay    |-> user.bio_display,
     instagramHandle |-> user.instagram_handle,
     totalUsers    |-> user.total_users,
     newerUsers    |-> user.newer_users,
     logCount      |-> user.log_count,
     roleCount     |-> user.role_count,
     divisionCount |-> user.division_count,
     loginCount    |-> user.login_count,
     updateCount   |-> user.update_count,
     recentLogs    |-> user.recent_logs,
     daysSinceCreated |-> now - user.created_at,
     isActive      |-> user.log_count > 5,
     isSenior      |-> user.role # NULL /\ (user.role = "admin" \/ user.role = "moderator"),
     socialMedia   |-> OrEmptyObject(user.profile_json),
     hasProfile    |-> ~user.profile_json.isNull,
     hasBio        |-> Truthy(user.bio),
     hasAddress    |-> Truthy(user.address),
     hasPhone      |-> Truthy(user.phone_number),
     profileCompleteness |->
         (CountTrue(<<Truthy(user.bio), Truthy(user.address),
                      Truthy(user.phone_number), ~user.profile_json.isNull>>) * 100) \div 4]

\* lines 174-212: the body of the original response
OriginalBody(result, d) ==
    LET records == [i \in 1..Len(result) |-> OriginalMapUser(result[i])]
        summary == SummaryReduce(records, Len(records))
    IN  [users       |-> records,
         total       |-> Len(records),
         activeUsers |-> summary.activeUsers,
         seniorUsers |-> summary.seniorUsers,
         usersWithCompleteProfiles |-> summary.usersWithCompleteProfiles,
         usersByDivision |-> summary.usersByDivision,
         filteredBy  |-> FilteredBy(d),
         message     |-> "Users retrieved successfully"]

\* Every body the original handler can answer a request with
OriginalBodies(d) == {OriginalBody(result, d) : result \in OriginalQueryResults(d)}

----------------------------------------------------------------------------
(* The single-record lookup by id (query of /api/user/[id]) *)

\* Every sequence of the rows of a set: the order of a result without
\* ORDER BY is not fixed
RECURSIVE AnyOrder(_)
AnyOrder(rows) ==
    IF rows = {} THEN {<<>>}
    ELSE UNION {{<<r>> \o rest : rest \in AnyOrder(rows \ {r})} : r \in rows}

\* The SELECT list of the lookup (username, birth_date, long_bio, updated_at
\* and a.email are passed through unchanged and left out)
LookupRow(row) ==
    [id            |-> row.u.id,
     full_name     |-> row.u.full_name,
     bio           |-> row.u.bio,
     profile_json  |-> row.u.profile_json,
     address       |-> row.u.address,
     phone_number  |-> row.u.phone_number,
     created_at    |-> row.u.created_at,
     role          |-> row.ur.role,
     division_name |-> row.ud.division_name]

\* Variant of LookupResults without LIMIT 1
LookupResultsNoLimit(id) ==
    {[i \in 1..Len(ord) |-> LookupRow(ord[i])] :
        ord \in AnyOrder({row \in JoinRolesDivisions : row.u.id = id})}

\* SELECT ... FROM users u LEFT JOIN ... WHERE u.id = $1 LIMIT 1: every
\* result the query can return
LookupResults(id) ==
    {[i \in 1..Len(w) |-> LookupRow(w[i])] :
        w \in {LimitOffset(ord, LookupLimit, 0) :
                  ord \in AnyOrder({row \in JoinRolesDivisions : row.u.id = id})}}

\* The store runs the lookup for an id
GetUser(id) ==
    /\ \E rows \in LookupResults(id) :
          lookup' = [asked |-> TRUE, id |-> id, rows |-> rows]
    /\ UNCHANGED <<db, pc, request, page, limit, offset, pageQ, countQ, response,
                   listing, clean, seq>>

----------------------------------------------------------------------------
(* The cleanup script cleanUsersData (two phases: identify, then delete)   *)
(* and the earlier sequential cleanup, both inside one transaction.        *)

web == <<pc, request, page, limit, offset, pageQ, countQ, response, listing,
         lookup>>

Tables ==
    [users |-> users, auth |-> auth, user_roles |-> user_roles,
     user_divisions |-> user_divisions, user_logs |-> user_logs]

\* What a statement of the open transaction reads: the committed rows less
\* the rows the transaction has deleted itself
Seen(t) == Tables[t] \ clean.deleted[t]

\* SQL "=": never true when a side is NULL
SqlEq(a, b) == a # NULL /\ b # NULL /\ a = b

\* Variant of HasNullField that does not look at bio
HasNullFieldNoBio(u) ==
    \/ u.username = NULL
    \/ u.full_name = NULL
    \/ u.address = NULL
    \/ u.phone_number = NULL

\* WHERE username IS NULL OR full_name IS NULL OR bio IS NULL OR address IS
\* NULL OR phone_number IS NULL
HasNullField(u) ==
    \/ u.username = NULL
    \/ u.full_name = NULL
    \/ u.bio = NULL
    \/ u.address = NULL
    \/ u.phone_number = NULL

UsersWithNulls(U) == {u.id : u \in {x \in U : HasNullField(x)}}

\* WHERE EXISTS (SELECT 1 FROM users u2 WHERE u2.username = u1.username AND
\* u2.id < u1.id)
DuplicateUsernames(U) ==
    {u1.id : u1 \in {x \in U : \E u2 \in U : /\ SqlEq(u2.username, x.username)
                                             /\ u2.id < x.id}}

DuplicatePhones(U) ==
    {u1.id : u1 \in {x \in U : \E u2 \in U : /\ SqlEq(u2.phone_number, x.phone_number)
                                             /\ u2.id < x.id}}

\* WHERE user_id NOT IN (SELECT id FROM users)
OrphanedRows(T, U) == {r \in T : r.user_id \notin {u.id : u \in U}}

\* WHERE id NOT IN (SELECT auth_id FROM users WHERE auth_id IS NOT NULL)
OrphanedAuth(A, U) ==
    {a \in A : a.id \notin {u.auth_id : u \in {x \in U : x.auth_id # NoId}}}

CountsOf(T) ==
    [users |-> Cardinality(T.users), auth |-> Cardinality(T.auth),
     user_roles |-> Cardinality(T.user_roles),
     user_logs |-> Cardinality(T.user_logs),
     user_divisions |-> Cardinality(T.user_divisions)]

SeenTables == [t \in DOMAIN Tables |-> Seen(t)]

\* const client = await pool.connect()
Connect ==
    /\ clean.pc = "idle"
    /\ clean' = [clean EXCEPT !.pc = "BEGIN", !.client = "held"]
    /\ UNCHANGED <<db, web, seq>>

\* pool.connect() rejects: no client, nothing began, the error leaves
\* cleanUsersData
ConnectFails ==
    /\ clean.pc = "idle"
    /\ clean' = [clean EXCEPT !.pc = "done", !.thrown = TRUE]
    /\ UNCHANGED <<db, web, seq>>

Begin ==
    /\ clean.pc = "BEGIN"
    /\ clean' = [clean EXCEPT !.pc = "initialCounts", !.tx = "open",
                              !.initial = Tables]
    /\ UNCHANGED <<db, web, seq>>

InitialCounts ==
    /\ clean.pc = "initialCounts"
    /\ clean' = [clean EXCEPT !.pc = "usersWithNulls",
                              !.initialCounts = CountsOf(SeenTables)]
    /\ UNCHANGED <<db, web, seq>>

FindUsersWithNulls ==
    /\ clean.pc = "usersWithNulls"
    /\ clean' = [clean EXCEPT !.pc = "duplicateUsernames",
                              !.usersWithNulls = UsersWithNulls(Seen("users"))]
    /\ UNCHANGED <<db, web, seq>>

FindDuplicateUsernames ==
    /\ clean.pc = "duplicateUsernames"
    /\ clean' = [clean EXCEPT !.pc = "duplicatePhones",
                              !.duplicateUsernames = DuplicateUsernames(Seen("users"))]
    /\ UNCHANGED <<db, web, seq>>

FindDuplicatePhones ==
    /\ clean.pc = "duplicatePhones"
    /\ clean' = [clean EXCEPT !.pc = "allUserIdsToDelete",
                              !.duplicatePhones = DuplicatePhones(Seen("users"))]
    /\ UNCHANGED <<db, web, seq>>

\* allUserIdsToDelete = [...new Set([...])]; nothing to delete: COMMIT, return
AllUserIdsToDelete ==
    /\ clean.pc = "allUserIdsToDelete"
    /\ LET ids == clean.usersWithNulls \cup clean.duplicateUsernames
                    \cup clean.duplicatePhones
       IN clean' = [clean EXCEPT !.allUserIdsToDelete = ids,
                                 !.pc = IF ids = {} THEN "commitNoCleanup"
                                        ELSE "deleteUserRoles"]
    /\ UNCHANGED <<db, web, seq>>

\* DELETE FROM t WHERE user_id IN (allUserIdsToDelete)
DeleteRelated(t, at, next) ==
    /\ clean.pc = at
    /\ clean' = [clean EXCEPT
                   !.pc = next,
                   !.deleted[t] = @ \cup {r \in Seen(t) :
                                            r.user_id \in clean.allUserIdsToDelete}]
    /\ UNCHANGED <<db, web, seq>>

DeleteUserRoles == DeleteRelated("user_roles", "deleteUserRoles", "deleteUserLogs")

DeleteUserLogs == DeleteRelated("user_logs", "deleteUserLogs", "deleteUserDivisions")

DeleteUserDivisions == DeleteRelated("user_divisions", "deleteUserDivisions", "deleteUsers")

\* DELETE FROM users WHERE id IN (allUserIdsToDelete)
DeleteUsers ==
    /\ clean.pc = "deleteUsers"
    /\ clean' = [clean EXCEPT
                   !.pc = "orphanedRoles",
                   !.deleted.users = @ \cup {u \in Seen("users") :
                                               u.id \in clean.allUserIdsToDelete}]
    /\ UNCHANGED <<db, web, seq>>

\* DELETE FROM t WHERE user_id NOT IN (SELECT id FROM users)
DeleteOrphaned(t, at, next) ==
    /\ clean.pc = at
    /\ clean' = [clean EXCEPT
                   !.pc = next,
                   !.deleted[t] = @ \cup OrphanedRows(Seen(t), Seen("users"))]
    /\ UNCHANGED <<db, web, seq>>

OrphanedRoles == DeleteOrphaned("user_roles", "orphanedRoles", "orphanedLogs")

OrphanedLogs == DeleteOrphaned("user_logs", "orphanedLogs", "orphanedDivisions")

OrphanedDivisions == DeleteOrphaned("user_divisions", "orphanedDivisions", "orphanedAuth")

DeleteOrphanedAuth ==
    /\ clean.pc = "orphanedAuth"
    /\ clean' = [clean EXCEPT
                   !.pc = "finalCounts",
                   !.deleted.auth = @ \cup OrphanedAuth(Seen("auth"), Seen("users"))]
    /\ UNCHANGED <<db, web, seq>>

FinalCounts ==
    /\ clean.pc = "finalCounts"
    /\ clean' = [clean EXCEPT !.pc = "COMMIT",
                              !.finalCounts = CountsOf(SeenTables)]
    /\ UNCHANGED <<db, web, seq>>

\* COMMIT: the deletions of the transaction become the tables' content
Commit ==
    /\ clean.pc \in {"COMMIT", "commitNoCleanup"}
    /\ users' = Seen("users")
    /\ auth' = Seen("auth")
    /\ user_roles' = Seen("user_roles")
    /\ user_divisions' = Seen("user_divisions")
    /\ user_logs' = Seen("user_logs")
    /\ clean' = [clean EXCEPT !.pc = "finally", !.tx = "committed"]
    /\ UNCHANGED <<now, web, seq>>

\* The statements awaited inside the try block
Statements ==
    {"BEGIN", "initialCounts", "usersWithNulls", "duplicateUsernames",
     "duplicatePhones", "commitNoCleanup", "deleteUserRoles", "deleteUserLogs",
     "deleteUserDivisions", "deleteUsers", "orphanedRoles", "orphanedLogs",
     "orphanedDivisions", "orphanedAuth", "finalCounts", "COMMIT"}

\* A statement rejects: control passes to the catch block
StatementFails ==
    /\ clean.pc \in Statements
    /\ clean' = [clean EXCEPT !.pc = "ROLLBACK"]
    /\ UNCHANGED <<db, web, seq>>

\* Variant of Rollback that keeps the deletions made so far
RollbackKeeps ==
    /\ clean.pc = "ROLLBACK"
    /\ users' = Seen("users")
    /\ auth' = Seen("auth")
    /\ user_roles' = Seen("user_roles")
    /\ user_divisions' = Seen("user_divisions")
    /\ user_logs' = Seen("user_logs")
    /\ clean' = [clean EXCEPT !.pc = "finally",
                              !.tx = IF @ = "open" THEN "rolledback" ELSE @,
                              !.thrown = TRUE]
    /\ UNCHANGED <<now, web, seq>>

\* catch: ROLLBACK, then throw error
Rollback ==
    /\ clean.pc = "ROLLBACK"
    /\ clean' = [clean EXCEPT !.pc = "finally",
                              !.tx = IF @ = "open" THEN "rolledback" ELSE @,
                              !.deleted = NoDeletes,
                              !.thrown = TRUE]
    /\ UNCHANGED <<db, web, seq>>

\* finally: client.release()
Finally ==
    /\ clean.pc = "finally"
    /\ clean' = [clean EXCEPT !.pc = "done", !.client = "released"]
    /\ UNCHANGED <<db, web, seq>>

\* The script is run once more after a run that committed
RunAgain ==
    /\ clean.pc = "done"
    /\ clean.tx = "committed"
    /\ clean.run < MaxRuns
    /\ clean' = [NoClean EXCEPT !.run = clean.run + 1]
    /\ seq' = NoSeq
    /\ UNCHANGED <<db, web>>

\* The earlier cleanup: each DELETE reads what the DELETE before it left
DeleteUsersWithNulls(U) == {u \in U : u.id \notin UsersWithNulls(U)}

DeleteDuplicateUsernames(U) == {u \in U : u.id \notin DuplicateUsernames(U)}

DeleteDuplicatePhones(U) == {u \in U : u.id \notin DuplicatePhones(U)}

SequentialUsers(U) ==
    DeleteDuplicatePhones(DeleteDuplicateUsernames(DeleteUsersWithNulls(U)))

\* The earlier cleanup run to its COMMIT on the data cleanUsersData is about
\* to start from; its outcome is kept aside in seq
SequentialCleanup ==
    /\ clean.pc = "idle"
    /\ ~seq.ran
    /\ LET U == SequentialUsers(users)
       IN seq' = [ran |-> TRUE, users |-> U,
                  auth |-> auth \ OrphanedAuth(auth, U),
                  user_roles |-> user_roles \ OrphanedRows(user_roles, U),
                  user_divisions |-> user_divisions \ OrphanedRows(user_divisions, U),
                  user_logs |-> user_logs \ OrphanedRows(user_logs, U)]
    /\ UNCHANGED <<db, web, clean>>

\* "Verify database integrity" of the workflow: the orphaned rows it counts
TotalOrphaned ==
    Cardinality(OrphanedRows(user_roles, users))
      + Cardinality(OrphanedRows(user_logs, users))
      + Cardinality(OrphanedRows(user_divisions, users))
      + Cardinality(OrphanedAuth(auth, users))

----------------------------------------------------------------------------
(* A client that lists a filter page by page with one limit, and may ask   *)
(* for the page it has just received once more.                            *)

UserIds(resp) == [i \in 1..Len(resp.body.users) |-> resp.body.users[i].id]

\* The first page of a listing
ListFirst(d, l) ==
    /\ Start(d, Text(NumberToString(1)), l)
    /\ listing' = [NoListing EXCEPT !.division = d, !.limit = l]

\* The page after the last one received, while the response says there is one
ListNext ==
    /\ response.status = 200
    /\ listing.pages # <<>>
    /\ Len(listing.pages) < response.body.pagination.totalPages
    /\ Start(listing.division, Text(NumberToString(Len(listing.pages) + 1)),
             listing.limit)
    /\ listing' = [listing EXCEPT !.repeating = FALSE, !.again = <<>>]

\* The same request as the last one
ListAgain ==
    /\ response.status = 200
    /\ listing.pages # <<>>
    /\ Start(request.division, request.page, request.limit)
    /\ listing' = [listing EXCEPT !.repeating = TRUE, !.again = <<>>]

\* The client receives the response
ListRespond ==
    /\ Respond
    /\ listing' = IF listing.repeating
                  THEN [listing EXCEPT !.again = <<UserIds(response')>>]
                  ELSE [listing EXCEPT !.pages = Append(@, UserIds(response'))]

----------------------------------------------------------------------------
(* Requests *)

\* Data of the cleanup: profiles with a NULL username or bio, sharing a username
\* or a phone number or not
CleanProfiles ==
    [username     : {NULL, "ann", "bob"},
     full_name    : {"Ann"},
     bio          : {NULL, "Hello"},
     address      : {"Jl. A"},
     phone_number : {"0812", "0813"},
     profile_json : {JsonNull}]

\* Rows left behind by a user deleted earlier: a role, an auth row
OrphanKinds == SUBSET {"user_roles", "auth"}

\* Every profile with one role, one division and its auth row, the first
\* with one log
InitClean ==
    /\ \E n \in 1..MaxCleanUsers :
         \E profile \in [1..n -> CleanProfiles], orphans \in OrphanKinds :
            /\ users = UserRowsWith(n, [u \in 1..n |-> 1], profile)
            /\ auth = AuthRows(n) \cup
                        (IF "auth" \in orphans THEN {[id |-> n + 1]} ELSE {})
            /\ user_roles = RoleRows(n, [u \in 1..n |-> <<"admin">>]) \cup
                        (IF "user_roles" \in orphans
                         THEN {[id |-> n + 1, user_id |-> n + 1, role |-> "admin"]}
                         ELSE {})
            /\ user_divisions = DivisionRows(n, [u \in 1..n |-> <<"Tech">>])
            /\ user_logs = LogRows({[user_id |-> 1, action |-> "login", age |-> 0]}, Today)
            /\ now = Today
    /\ HandlerInit

\* Data read by the list while the cleanup runs: two profiles with their own
\* username and phone number, one role and one division each, with a NULL
\* bio or not
InitWrites ==
    /\ \E bios \in [1..2 -> {NULL, "Hello"}] :
         DataSetWith(2, [u \in 1..2 |-> u],
                     [u \in 1..2 |-> [roles |-> <<"admin">>, divisions |-> <<"Tech">>]],
                     {},
                     [u \in 1..2 |->
                        [FullProfile EXCEPT
                           !.username = IF u = 1 THEN "ann" ELSE "bob",
                           !.phone_number = IF u = 1 THEN "0812" ELSE "0813",
                           !.bio = bios[u]]])
    /\ HandlerInit

DivisionInputs == {NULL, "Tech"}

PageInputs == {Text(NumberToString(k)) : k \in 1..MaxPage} \cup {Text(<<"a", "b", "c">>)}

LimitInputs == {Absent} \cup {Text(NumberToString(k)) : k \in 1..MaxLimit}

\* Parameter values of every kind: absent, empty, zero, negative, in range,
\* above the maximum, not a number, a number followed by text
RawInputs ==
    {Absent, Text(<<>>), Text(<<"0">>), Text(<<"-", "3">>), Text(<<"2">>),
     Text(<<"2", "5", "0">>), Text(<<"a", "b", "c">>), Text(<<" ", "2", "x">>)}

Next ==
    \/ \E d \in DivisionInputs, p \in PageInputs, l \in LimitInputs : GetStart(d, p, l)
    \/ ExecPageQuery
    \/ PageQueryRejected
    \/ PageQueryFails
    \/ ExecCountQuery
    \/ CountQueryFails
    \/ GetRespond
    \/ GetFail

NextParse ==
    \/ \E p \in RawInputs, l \in RawInputs : GetStart(NULL, p, l)
    \/ ExecPageQuery
    \/ PageQueryRejected
    \/ PageQueryFails
    \/ ExecCountQuery
    \/ CountQueryFails
    \/ GetRespond
    \/ GetFail

\* Listings all of whose requests succeed
NextListing ==
    \/ \E d \in DivisionInputs, l \in LimitInputs : ListFirst(d, l)
    \/ ListNext
    \/ ListAgain
    \/ ExecPageQuery
    \/ ExecCountQuery
    \/ ListRespond

\* Requests for the first page with the default limit
\* The division parameter absent, present and empty, "all", a division name
FilterInputs == {NULL, "", "all", "Tech"}

\* Requests of the first page with every kind of division parameter
NextFilter ==
    \/ \E d \in FilterInputs : GetStart(d, Absent, Absent)
    \/ ExecPageQuery
    \/ PageQueryFails
    \/ ExecCountQuery
    \/ CountQueryFails
    \/ GetRespond
    \/ GetFail

\* The list is requested while cleanUsersData runs in its own session
NextWrites ==
    \/ \E d \in DivisionInputs, p \in PageInputs, l \in LimitInputs : GetStart(d, p, l)
    \/ ExecPageQuery
    \/ PageQueryRejected
    \/ PageQueryFails
    \/ ExecCountQuery
    \/ CountQueryFails
    \/ GetRespond
    \/ GetFail
    \/ Connect
    \/ ConnectFails
    \/ Begin
    \/ InitialCounts
    \/ FindUsersWithNulls
    \/ FindDuplicateUsernames
    \/ FindDuplicatePhones
    \/ AllUserIdsToDelete
    \/ DeleteUserRoles
    \/ DeleteUserLogs
    \/ DeleteUserDivisions
    \/ DeleteUsers
    \/ OrphanedRoles
    \/ OrphanedLogs
    \/ OrphanedDivisions
    \/ DeleteOrphanedAuth
    \/ FinalCounts
    \/ Commit
    \/ StatementFails
    \/ Rollback
    \/ Finally

NextProfile ==
    \/ \E d \in DivisionInputs : GetStart(d, Absent, Absent)
    \/ ExecPageQuery
    \/ PageQueryFails
    \/ ExecCountQuery
    \/ CountQueryFails
    \/ GetRespond
    \/ GetFail

\* Requests with numeric page and limit, all of whose queries succeed
NextSummary ==
    \/ \E d \in DivisionInputs, p \in 1..MaxPage, l \in 1..MaxLimit :
          GetStart(d, Text(NumberToString(p)), Text(NumberToString(l)))
    \/ ExecPageQuery
    \/ ExecCountQuery
    \/ GetRespond

\* Lookups of the ids of the data set and of an id that no profile has
NextLookup == \E id \in 1..(MaxUsers + 1) : GetUser(id)

NextClean ==
    \/ SequentialCleanup
    \/ Connect
    \/ ConnectFails
    \/ Begin
    \/ InitialCounts
    \/ FindUsersWithNulls
    \/ FindDuplicateUsernames
    \/ FindDuplicatePhones
    \/ AllUserIdsToDelete
    \/ DeleteUserRoles
    \/ DeleteUserLogs
    \/ DeleteUserDivisions
    \/ DeleteUsers
    \/ OrphanedRoles
    \/ OrphanedLogs
    \/ OrphanedDivisions
    \/ DeleteOrphanedAuth
    \/ FinalCounts
    \/ Commit
    \/ StatementFails
    \/ Rollback
    \/ Finally
    \/ RunAgain

Spec == Init /\ [][Next]_vars

SpecLookup == Init /\ [][NextLookup]_vars

SpecProfile == InitProfile /\ [][NextProfile]_vars

SpecSummary == InitSummary /\ [][NextSummary]_vars

SpecLogs == InitLogs /\ [][Next]_vars

SpecListing == InitListing /\ [][NextListing]_vars

SpecParse == InitParse /\ [][NextParse]_vars

SpecFilter == Init /\ [][NextFilter]_vars

SpecWrites == InitWrites /\ [][NextWrites]_vars

SpecClean == InitClean /\ [][NextClean]_vars

----------------------------------------------------------------------------
(* Properties of the list endpoint *)

Ok == pc = "idle" /\ response.status = 200

Returned == response.body.users

Pagination == response.body.pagination

\* The division filter restricts nothing
NoFilter(d) == d = NULL \/ d = "all"

\* The profiles that match a division filter
Matching(d) ==
    {u \in users :
        NoFilter(d) \/ \E x \in user_divisions : x.user_id = u.id /\ x.division_name = d}

LogsOf(id) == {l \in user_logs : l.user_id = id}

\* How often an id occurs in a sequence of ids
Occurrences(ids, id) == Cardinality({i \in 1..Len(ids) : ids[i] = id})

RECURSIVE Concat(_, _)
Concat(pages, k) == IF k = 0 THEN <<>> ELSE Concat(pages, k - 1) \o pages[k]

\* created_at of a set of profiles, in descending order
RECURSIVE SortedCreatedAt(_)
SortedCreatedAt(profiles) ==
    IF profiles = {} THEN <<>>
    ELSE LET m == CHOOSE x \in profiles :
                     \A y \in profiles : y.created_at <= x.created_at
         IN  <<m.created_at>> \o SortedCreatedAt(profiles \ {m})

\* The client has received pages 1..totalPages of its listing
ListingComplete ==
    /\ Ok
    /\ listing.pages # <<>>
    /\ Len(listing.pages) >= Pagination.totalPages

\* C1: over a fixed data set, the pages 1..totalPages of a listing (one
\* filter, one limit) hold every matching profile exactly once and no other
\* profile, also when profiles share created_at.
C1_PagesCoverMatchingOnce ==
    ListingComplete =>
        \A u \in users :
            Occurrences(Concat(listing.pages, Pagination.totalPages), u.id)
                = IF u \in Matching(listing.division) THEN 1 ELSE 0

\* C2: a profile with several user_roles or user_divisions rows is returned
\* at most once in a page and counted once in totalCount.
C2_SatelliteRowsDoNotMultiply ==
    Ok =>
        /\ \A i, j \in 1..Len(Returned) : Returned[i].id = Returned[j].id => i = j
        /\ Pagination.totalCount = Cardinality(Matching(request.division))

\* C3: the same request sent twice over an unchanged data set returns the
\* same user ids in the same order.
C3_SameRequestSameOrder ==
    (Ok /\ listing.again # <<>>) =>
        listing.again[1] = listing.pages[Len(listing.pages)]

\* C4: whatever the page and limit parameters, page is an integer >= 1,
\* limit an integer in 1..MAX_LIMIT (DEFAULT_LIMIT when absent), and no
\* error response is caused by the parameters.
C4_ParametersClampedNeverFault ==
    (pc = "idle" /\ response.status # 0) =>
        /\ ~page.nan /\ page.v >= 1
        /\ ~limit.nan /\ limit.v \in 1..MAX_LIMIT
        /\ ~request.limit.present => limit.v = DEFAULT_LIMIT
        /\ pageQ.state # "rejected"
        /\ response.status = 500 => "failed" \in {pageQ.state, countQ.state}

\* C5: totalCount is the number of profiles that match the filter, whatever
\* the page and the limit.
C5_TotalCountIsMatchingProfiles ==
    Ok => Pagination.totalCount = Cardinality(Matching(request.division))

\* Position of a profile among the matching profiles, newest first
Rank(u, d) == Cardinality({v \in Matching(d) : v.created_at > u.created_at})

OneRowPerProfile ==
    \A u \in users :
        /\ Cardinality({x \in user_roles : x.user_id = u.id}) <= 1
        /\ Cardinality({x \in user_divisions : x.user_id = u.id}) <= 1

DistinctCreatedAt ==
    \A u, v \in users : u.created_at = v.created_at => u = v

\* C6: a matching profile without log entries is kept by the join with the
\* log aggregates and is listed like any other (on the only page when the
\* matching rows fit on it; on the page of its rank when every profile has
\* one row and its own created_at), and its four log counts are 0.
C6_NoLogsListedWithZeroCounts ==
    Ok =>
        /\ \A u \in Matching(request.division) :
              LogsOf(u.id) = {} =>
                  \E row \in FilteredRows(request.division) : row.u.id = u.id
        /\ \A i \in 1..Len(Returned) :
              LogsOf(Returned[i].id) = {} =>
                  /\ Returned[i].logCount = 0
                  /\ Returned[i].loginCount = 0
                  /\ Returned[i].updateCount = 0
                  /\ Returned[i].recentLogs = 0
        /\ \A u \in Matching(request.division) :
              LogsOf(u.id) = {} =>
                  /\ (Pagination.page = 1 /\ Pagination.totalCount <= Pagination.limit)
                        => \E i \in 1..Len(Returned) : Returned[i].id = u.id
                  /\ (OneRowPerProfile /\ DistinctCreatedAt)
                        => ((\E i \in 1..Len(Returned) : Returned[i].id = u.id)
                             <=> Rank(u, request.division) \in
                                    offset.v .. (offset.v + limit.v - 1))

C6_Witness ==
    /\ Ok
    /\ \E i, j \in 1..Len(Returned) :
          /\ LogsOf(Returned[i].id) = {}
          /\ LogsOf(Returned[j].id) # {}
          /\ Returned[j].logCount > 0

\* C7: the four log counts of a returned record are the counts of the
\* profile's user_logs rows: all of them, those with action 'login', those
\* with action 'update_profile', and those created after now - 30 days.
C7_LogCountsPerProfile ==
    Ok =>
        \A i \in 1..Len(Returned) :
            LET logs == LogsOf(Returned[i].id)
            IN  /\ Returned[i].logCount = Cardinality(logs)
                /\ Returned[i].loginCount =
                      Cardinality({l \in logs : l.action = "login"})
                /\ Returned[i].updateCount =
                      Cardinality({l \in logs : l.action = "update_profile"})
                /\ Returned[i].recentLogs =
                      Cardinality({l \in logs : l.created_at > now - RecentDays})

C7_Witness ==
    /\ Ok
    /\ \E i \in 1..Len(Returned) :
          /\ Returned[i].logCount = MaxLogs
          /\ Returned[i].loginCount = 1
          /\ Returned[i].recentLogs = 1
          /\ \E l \in LogsOf(Returned[i].id) : l.created_at = now - RecentDays

\* C8: newerUsers is the number of profiles of the users table created
\* strictly later, also among profiles with equal created_at.
C8_NewerUsersStrictlyNewer ==
    Ok =>
        \A i \in 1..Len(Returned) :
            Returned[i].newerUsers =
                Cardinality({v \in users : v.created_at > Returned[i].createdAt})

\* C9: a page is in non-increasing created_at order, holds at most limit
\* rows, and holds the positions (page-1)*limit+1 .. page*limit of the
\* matching profiles ordered by created_at descending.
C9_PageIsWindowOfMatchingProfiles ==
    Ok =>
        /\ \A i, j \in 1..Len(Returned) :
              i < j => Returned[i].createdAt >= Returned[j].createdAt
        /\ Len(Returned) <= Pagination.limit
        /\ [i \in 1..Len(Returned) |-> Returned[i].createdAt]
              = LimitOffset(SortedCreatedAt(Matching(request.division)),
                            Pagination.limit,
                            (Pagination.page - 1) * Pagination.limit)

\* C10: totalPages = ceil(totalCount / limit), hasNextPage = (page <
\* totalPages), hasPreviousPage = (page > 1), and hasNextPage holds exactly
\* when page * limit < totalCount.
C10_PaginationArithmetic ==
    Ok =>
        /\ Pagination.totalPages * Pagination.limit >= Pagination.totalCount
        /\ (Pagination.totalPages - 1) * Pagination.limit < Pagination.totalCount
        /\ Pagination.totalPages >= 0
        /\ Pagination.hasNextPage <=> Pagination.page < Pagination.totalPages
        /\ Pagination.hasPreviousPage <=> Pagination.page > 1
        /\ Pagination.hasNextPage
              <=> Pagination.page * Pagination.limit < Pagination.totalCount

C10_Witness ==
    /\ Ok
    /\ Pagination.hasNextPage
    /\ Pagination.totalCount % Pagination.limit # 0
    /\ Pagination.totalPages > 1

\* The request has been answered
Answered == pc = "idle" /\ response.status # 0

\* The filter names a division that no row of user_divisions has
MatchesNoDivision(d) ==
    /\ ~NoFilter(d)
    /\ \A x \in user_divisions : x.division_name # d

\* C11: a division filter that matches no division is answered with status
\* 200, users = [], totalCount = 0, totalPages = 0 and hasNextPage = false;
\* an error response then comes from a failed query or from page / limit,
\* never from the filter.
C11_NoMatchIsEmptyPage ==
    (Answered /\ MatchesNoDivision(request.division)) =>
        /\ response.status \in {200, 500}
        /\ response.status = 200 =>
              /\ Returned = <<>>
              /\ Pagination.totalCount = 0
              /\ Pagination.totalPages = 0
              /\ Pagination.hasNextPage = FALSE
        /\ response.status = 500 =>
              \/ "failed" \in {pageQ.state, countQ.state}
              \/ ~ValidParams(limit, offset)

C11_Witness ==
    /\ Ok
    /\ MatchesNoDivision(request.division)
    /\ users # {}
    /\ user_divisions # {}
    /\ Returned = <<>>
    /\ Pagination.totalPages = 0

Settled(q) == q.state \in {"ok", "rejected", "failed"}

\* C12: when the page query or the count query fails, the request is
\* answered with status 500 and a body that holds only the error message (no
\* users, no pagination, not an empty page), and each of the two queries has
\* been issued exactly once.
C12_FailedQueryFailsRequest ==
    /\ pageQ.issued <= 1 /\ countQ.issued <= 1
    /\ (Answered /\ "failed" \in {pageQ.state, countQ.state}) =>
          /\ response.status = 500
          /\ DOMAIN response.body = {"message"}
          /\ response.body.message = "Internal server error."
          /\ pageQ.issued = 1 /\ countQ.issued = 1

C12_Witness ==
    /\ Answered
    /\ response.status = 500
    /\ pageQ.state = "ok" /\ pageQ.rows # <<>>
    /\ countQ.state = "failed"

\* C13: both queries of a request are issued before either result is
\* awaited (while the handler waits, and whenever one query has completed,
\* the other has been issued), and a response with rows, pagination and
\* summary is built only once both have completed.
C13_QueriesIssuedTogether ==
    /\ pc = "waiting" => (pageQ.issued = 1 /\ countQ.issued = 1)
    /\ Settled(pageQ) => countQ.issued = 1
    /\ Settled(countQ) => pageQ.issued = 1
    /\ Ok => (pageQ.state = "ok" /\ countQ.state = "ok")
    /\ (Answered /\ ~(pageQ.state = "ok" /\ countQ.state = "ok")) =>
          DOMAIN response.body = {"message"}

C13_Witness ==
    /\ pc = "waiting"
    /\ countQ.state = "ok"
    /\ pageQ.state = "pending"

\* The row of users of a returned record
Profile(record) == CHOOSE u \in users : u.id = record.id

\* s ends in suffix, after a full name of the data set or after nothing
EndsWith(s, suffix) ==
    \E prefix \in {"", " "} \cup UNION {{u.full_name, u.full_name \o " "} :
                                          u \in {v \in users : v.full_name # NULL}} :
        s = prefix \o suffix

\* C14: displayName of a returned record is the full name followed by the
\* role in parentheses, and ends in "(no role)" for every profile without a
\* role, also when the full name is missing.
C14_DisplayName ==
    Ok =>
        \A i \in 1..Len(Returned) :
            /\ (Returned[i].fullName # NULL /\ Returned[i].role # NULL) =>
                  Returned[i].displayName
                      = Returned[i].fullName \o " (" \o Returned[i].role \o ")"
            /\ Returned[i].role = NULL => EndsWith(Returned[i].displayName, "(no role)")

\* C15: bioDisplay of a returned record is "No bio available" when the bio
\* is null and when it is the empty string, and the bio itself otherwise.
C15_BioDisplay ==
    Ok =>
        \A i \in 1..Len(Returned) :
            /\ Profile(Returned[i]).bio \in {NULL, ""} =>
                  Returned[i].bioDisplay = "No bio available"
            /\ Profile(Returned[i]).bio \notin {NULL, ""} =>
                  Returned[i].bioDisplay = Profile(Returned[i]).bio

C15_Witness ==
    /\ Ok
    /\ \E i \in 1..Len(Returned) :
          /\ Profile(Returned[i]).bio = ""
          /\ Returned[i].bioDisplay = "No bio available"

\* The columns among bio, address, phone_number, profile_json that are not
\* null in a row of users
NonNullColumns(u) ==
    {c \in {"bio", "address", "phone_number", "profile_json"} :
        \/ c = "bio" /\ u.bio # NULL
        \/ c = "address" /\ u.address # NULL
        \/ c = "phone_number" /\ u.phone_number # NULL
        \/ c = "profile_json" /\ ~u.profile_json.isNull}

\* C16: profileCompleteness of a returned record is 25 times the number of
\* non-null columns among bio, address, phone_number and profile_json, hence
\* one of 0, 25, 50, 75, 100, and 50 when exactly bio and address are set.
C16_ProfileCompleteness ==
    Ok =>
        \A i \in 1..Len(Returned) :
            /\ Returned[i].profileCompleteness
                  = 25 * Cardinality(NonNullColumns(Profile(Returned[i])))
            /\ Returned[i].profileCompleteness \in {0, 25, 50, 75, 100}
            /\ NonNullColumns(Profile(Returned[i])) = {"bio", "address"} =>
                  Returned[i].profileCompleteness = 50

C16_Witness ==
    /\ Ok
    /\ \E i \in 1..Len(Returned) :
          /\ NonNullColumns(Profile(Returned[i])) = {"bio", "address"}
          /\ Profile(Returned[i]).bio = ""
          /\ Returned[i].profileCompleteness = 50

\* C17: isActive of a returned record holds exactly when the profile has
\* more than 5 log entries, and isSenior exactly when the role of the record
\* is "admin" or "moderator" (not when the role is absent).
C17_ActiveAndSenior ==
    Ok =>
        \A i \in 1..Len(Returned) :
            /\ Returned[i].isActive <=> Cardinality(LogsOf(Returned[i].id)) > 5
            /\ Returned[i].isSenior <=> Returned[i].role \in {"admin", "moderator"}
            /\ Returned[i].role = NULL => ~Returned[i].isSenior

C17_Witness ==
    /\ Ok
    /\ \E i \in 1..Len(Returned) :
          /\ Cardinality(LogsOf(Returned[i].id)) = 5
          /\ ~Returned[i].isActive
          /\ Returned[i].role = "moderator"
          /\ Returned[i].isSenior

Summary == response.body.summary

\* The sum of the values of f over a set of keys
RECURSIVE SumOver(_, _)
SumOver(f, keys) ==
    IF keys = {} THEN 0
    ELSE LET k == CHOOSE x \in keys : TRUE IN f[k] + SumOver(f, keys \ {k})

\* C18: the summary is computed from the returned page only: activeUsers,
\* seniorUsers and usersWithCompleteProfiles count the records of the page
\* with isActive, isSenior and profileCompleteness > 75, and the counts of
\* usersByDivision are those of the page and sum to users.length.
C18_SummaryOfPage ==
    Ok =>
        /\ Summary.activeUsers
              = Cardinality({i \in 1..Len(Returned) : Returned[i].isActive})
        /\ Summary.seniorUsers
              = Cardinality({i \in 1..Len(Returned) : Returned[i].isSenior})
        /\ Summary.usersWithCompleteProfiles
              = Cardinality({i \in 1..Len(Returned) :
                                Returned[i].profileCompleteness > 75})
        /\ \A k \in DOMAIN Summary.usersByDivision :
              Summary.usersByDivision[k]
                  = Cardinality({i \in 1..Len(Returned) :
                                    PropertyKey(Returned[i].division) = k})
        /\ SumOver(Summary.usersByDivision, DOMAIN Summary.usersByDivision)
              = Len(Returned)

C18_Witness ==
    /\ Ok
    /\ Len(Returned) = 2
    /\ Pagination.totalCount > Len(Returned)
    /\ Summary.activeUsers = 1
    /\ Summary.usersWithCompleteProfiles = 1
    /\ \E i \in 1..Len(Returned) : Returned[i].profileCompleteness = 75
    /\ \E u \in users :
          /\ \A i \in 1..Len(Returned) : Returned[i].id # u.id
          /\ Cardinality(LogsOf(u.id)) > 5

\* C19: the lookup by id returns at most one row, also for a profile with
\* several user_roles or user_divisions rows; a row with the requested id
\* when a profile has that id; and no row (an empty result) when none has.
C19_LookupAtMostOneRow ==
    lookup.asked =>
        /\ Len(lookup.rows) <= 1
        /\ (\E u \in users : u.id = lookup.id) =>
              (Len(lookup.rows) = 1 /\ lookup.rows[1].id = lookup.id)
        /\ (\A u \in users : u.id # lookup.id) => lookup.rows = <<>>

C19_Witness ==
    /\ lookup.asked
    /\ Cardinality({x \in user_roles : x.user_id = lookup.id}) > 1
    /\ Len(lookup.rows) = 1
    /\ lookup.rows[1].id = lookup.id

\* Every field of the record old is a field of the record new, with the same
\* value
SameFields(old, new) ==
    \A f \in DOMAIN old : f \in DOMAIN new /\ new[f] = old[f]

\* Every field of the original body is in the optimized body with the same
\* value; the users arrays are compared record by record
Compatible(old, new) ==
    /\ \A f \in DOMAIN old \ {"users"} : f \in DOMAIN new /\ new[f] = old[f]
    /\ Len(new.users) = Len(old.users)
    /\ \A i \in 1..Len(old.users) : SameFields(old.users[i], new.users[i])

\* All rows that match the filter fit in the first page
FitsInOnePage ==
    /\ page.v = 1
    /\ Cardinality(FilteredRows(request.division)) <= limit.v

\* C20: when the matching profiles fit in one page, every top-level field of
\* the original response and every field of each of its user records is in
\* the optimized response with the same value.
C20_BackwardCompatible ==
    (Ok /\ FitsInOnePage) =>
        \E old \in OriginalBodies(request.division) : Compatible(old, response.body)

----------------------------------------------------------------------------
(* Properties of the cleanup                                                *)

Committed == clean.tx = "committed"

\* C21: a request to the list changes no row of users, auth, user_roles,
\* user_divisions or user_logs, whether it is answered with 200 or with 500:
\* no step of the handler changes a table.
C21_ListRequestChangesNoTable ==
    [][UNCHANGED <<users, auth, user_roles, user_divisions, user_logs>>]_vars

C21_Witness ==
    /\ Answered
    /\ response.status = 500
    /\ users # {}
    /\ user_roles # {}
    /\ user_divisions # {}

\* C26: after cleanUsersData has committed, no orphaned record remains,
\* whatever the tables held before: every row of user_roles, user_logs and
\* user_divisions references an existing user and every auth row is
\* referenced by a user, so the integrity verification counts 0 orphans.
C26_NoOrphanAfterCommit ==
    Committed =>
        /\ \A r \in user_roles \cup user_logs \cup user_divisions :
              \E u \in users : u.id = r.user_id
        /\ \A a \in auth : \E u \in users : u.auth_id = a.id
        /\ TotalOrphaned = 0

\* The users that held the username, the phone number, of u when the
\* transaction began
SameUsername(u) == {x \in clean.initial.users : SqlEq(x.username, u.username)}

SamePhone(u) == {x \in clean.initial.users : SqlEq(x.phone_number, u.phone_number)}

Lowest(S) == CHOOSE x \in S : \A y \in S : x.id <= y.id

Ids(U) == {u.id : u \in U}

\* Of a group of users, the one with the lowest id remains and no other does
KeepsLowestOnly(S) == Ids(S) \cap Ids(users) = {Lowest(S).id}

\* C27: of the users that held one username (one phone number) before the
\* cleanup, the one with the lowest id remains after the committed cleanup
\* and all the others are gone.
C27_LowestIdKept ==
    Committed =>
        \A u \in clean.initial.users :
            /\ Cardinality(SameUsername(u)) > 1 => KeepsLowestOnly(SameUsername(u))
            /\ Cardinality(SamePhone(u)) > 1 => KeepsLowestOnly(SamePhone(u))

\* C28: after a committed run no remaining user has NULL in username,
\* full_name, bio, address or phone_number and no two remaining users share a
\* username or a phone number; a second run selects and deletes no user and
\* commits the users table it found.
C28_CleanAndIdempotent ==
    /\ Committed =>
          /\ \A u \in users :
                NULL \notin {u.username, u.full_name, u.bio, u.address, u.phone_number}
          /\ \A u, v \in users :
                u.id # v.id => /\ u.username # v.username
                               /\ u.phone_number # v.phone_number
    /\ clean.run > 1 =>
          /\ clean.allUserIdsToDelete = {}
          /\ clean.deleted.users = {}
          /\ Committed => users = clean.initial.users

\* The second run has committed after a first run that deleted user 1 and
\* kept user 2
C28_Witness ==
    /\ clean.run = 2
    /\ Committed
    /\ 2 \in Ids(users)
    /\ 1 \notin Ids(users)

\* C29: from one initial state the two-phase cleanup (cleanUsersData) and the
\* earlier sequential cleanup commit the same set of users.
C29_SameUsersAsSequential ==
    (Committed /\ seq.ran) => users = seq.users

\* C30: the cleanup is all or nothing. While the transaction is open, and
\* after a statement between BEGIN and COMMIT has failed, the tables hold
\* what they held when the transaction began; the failure is followed by
\* ROLLBACK and the error leaves cleanUsersData; the deletions reach the
\* tables only through COMMIT, all together; and once the script is over
\* the client it obtained has been released.
C30_AllOrNothing ==
    /\ clean.tx \in {"open", "rolledback"} => Tables = clean.initial
    /\ Committed =>
          \A t \in DOMAIN Tables : Tables[t] = clean.initial[t] \ clean.deleted[t]
    /\ clean.pc \in {"finally", "done"} =>
          \/ Committed /\ ~clean.thrown
          \/ clean.tx \in {"rolledback", "none"} /\ clean.thrown
    /\ clean.pc = "done" => clean.client # "held"
    /\ clean.client = "none" => clean.tx = "none"

\* The COMMIT after the deletion of a user failed: rolled back, rethrown,
\* client released, the user still there
C30_Witness ==
    /\ clean.pc = "done"
    /\ clean.tx = "rolledback"
    /\ clean.thrown
    /\ clean.client = "released"
    /\ clean.finalCounts.users < clean.initialCounts.users
    /\ Cardinality(users) = clean.initialCounts.users

\* C23: whatever the division parameter (absent, empty, "all", a division
\* name), filteredBy is "all" exactly when no restriction by division was
\* applied: when filteredBy is "all" and every profile has at most one
\* division, totalCount is the number of all profiles.
C23_FilteredByAllMeansNoRestriction ==
    (Ok /\ response.body.filteredBy = "all"
        /\ \A u \in users : Cardinality({x \in user_divisions : x.user_id = u.id}) <= 1)
      => Pagination.totalCount = Cardinality(users)

\* C24: roleCount of a returned record is the number of user_roles rows of
\* its profile and divisionCount the number of its user_divisions rows.
C24_RoleAndDivisionCounts ==
    Ok =>
        \A i \in 1..Len(Returned) :
            /\ Returned[i].roleCount
                  = Cardinality({x \in user_roles : x.user_id = Returned[i].id})
            /\ Returned[i].divisionCount
                  = Cardinality({x \in user_divisions : x.user_id = Returned[i].id})

\* C25: profileCompleteness of a returned record is 25 times the number of
\* true flags among hasBio, hasAddress, hasPhone and hasProfile of the same
\* record, for NULL, empty and non-empty column values.
C25_CompletenessMatchesFlags ==
    Ok =>
        \A i \in 1..Len(Returned) :
            Returned[i].profileCompleteness
              = 25 * Cardinality({f \in {"hasBio", "hasAddress", "hasPhone", "hasProfile"} :
                                     Returned[i][f]})

Max(a, b) == IF a >= b THEN a ELSE b

\* C22: in every response with status 200, also when a committed write (the
\* cleanup transaction deleting profiles) falls between the page query and
\* the count query, the number of returned users is at most totalCount and
\* at most max(0, totalCount - (page - 1) * limit).
C22_PageWithinTotalCount ==
    Ok =>
        /\ Len(Returned) <= Pagination.totalCount
        /\ Len(Returned) <= Max(0, Pagination.totalCount
                                     - (Pagination.page - 1) * Pagination.limit)

====
